---------------------------- MODULE Spec2Model ----------------------------
(***************************************************************************)
(* A model of rislive.py, the RIPE RIS Live streaming client.              *)
(*                                                                         *)
(* Text is modelled as a sequence of one-character strings, so that        *)
(* str.split, str.strip, indexing and joining are computed character by    *)
(* character the way the code computes them.  None is the empty tuple and  *)
(* a present value x is the one-element tuple <<x>>.                       *)
(***************************************************************************)
EXTENDS Integers, Sequences, FiniteSets, TLC

(***************************************************************************)
(* Bounds of the model.                                                    *)
(***************************************************************************)
\* failures that end a session in a run: connection failures and clean stream ends
\* the remote side causes, and exceptions of print that leave the reception loop
MaxFailures == 1
\* messages the transport receives in a run
MaxMsgs == 2
\* interrupt signals (SIGINT) delivered in a run
MaxSignals == 2
\* pieces a text given to a validator on its own is put together from
MaxPieces == 4

(***************************************************************************)
(* The state of a run.                                                     *)
(***************************************************************************)
VARIABLES
    argv,        \* the command line
    pc,          \* where the main task is
    options,     \* args, the parsed Namespace (None before parse_args)
    ws,          \* streamer._ws: 0 for None, else the connection it refers to
    websocket,   \* start_streaming's websocket: the connection of the session, or 0
    exc,         \* the exception in flight while the async with block exits
    conns,       \* every connection opened so far, in order
    session,     \* the current (or, between two, the last) run of start_streaming
    msgs,        \* messages the transport has received in the run
    cancelMain,  \* task.cancel() was called on the main task and is not delivered yet
    tasks,       \* the shutdown tasks, one per interrupt signal, in order
    attempts,    \* calls of connect(): 0, 1, or 2 for two and more
    failures,    \* failures and stream ends that have ended a session or an attempt
    validated,   \* runs of parse_args
    built        \* what _get_ris_params or a validator returned when applied on its own

vars == <<argv, pc, options, ws, websocket, exc, conns, session, msgs, cancelMain,
          tasks, attempts, failures, validated, built>>

(***************************************************************************)
(* Text helpers: Python's str methods.                                     *)
(***************************************************************************)
None == <<>>
Some(x) == <<x>>
IsNone(o) == o = <<>>
Get(o) == o[1]

DigitChars == <<"0", "1", "2", "3", "4", "5", "6", "7", "8", "9">>
Digits == {DigitChars[i] : i \in 1..10}
HexDigits == Digits \cup {"a", "b", "c", "d", "e", "f", "A", "B", "C", "D", "E", "F"}
Whitespace == {" ", "\t", "\n"}
DigitVal(c) == (CHOOSE i \in 1..10 : DigitChars[i] = c) - 1

\* str.split(sep): always at least one piece
RECURSIVE Split(_, _)
Split(s, sep) ==
    IF \A i \in 1..Len(s) : s[i] # sep
    THEN <<s>>
    ELSE LET i == CHOOSE k \in 1..Len(s) :
                      s[k] = sep /\ \A j \in 1..(k - 1) : s[j] # sep
         IN  <<SubSeq(s, 1, i - 1)>> \o Split(SubSeq(s, i + 1, Len(s)), sep)

\* str.strip(chars): drops the leading and trailing characters that are in cs
RECURSIVE LStrip(_, _)
LStrip(s, cs) ==
    IF s # <<>> /\ Head(s) \in cs THEN LStrip(Tail(s), cs) ELSE s
RECURSIVE RStrip(_, _)
RStrip(s, cs) ==
    IF s # <<>> /\ s[Len(s)] \in cs THEN RStrip(SubSeq(s, 1, Len(s) - 1), cs) ELSE s
Strip(s, cs) == RStrip(LStrip(s, cs), cs)

\* sep.join(list)
RECURSIVE Join(_, _)
Join(l, sep) ==
    IF l = <<>> THEN <<>>
    ELSE IF Len(l) = 1 THEN l[1]
    ELSE l[1] \o <<sep>> \o Join(Tail(l), sep)

\* [x.strip() for x in value.split(",")]
StripEach(l) == [i \in 1..Len(l) |-> Strip(l[i], Whitespace)]

AllIn(s, cs) == \A i \in 1..Len(s) : s[i] \in cs
Contains(s, c) == \E i \in 1..Len(s) : s[i] = c

\* the value of a short run of decimal digits
RECURSIVE ToNat(_)
ToNat(ds) ==
    IF ds = <<>> THEN 0
    ELSE 10 * ToNat(SubSeq(ds, 1, Len(ds) - 1)) + DigitVal(ds[Len(ds)])

\* the first index at which a predicate over the elements of a list fails, or 0
FirstBad(l, Ok(_)) ==
    IF \A i \in 1..Len(l) : Ok(l[i]) THEN 0
    ELSE CHOOSE i \in 1..Len(l) : ~Ok(l[i]) /\ \A j \in 1..(i - 1) : Ok(l[j])


(***************************************************************************)
(* The standard library's parsers the validators call: int(),              *)
(* ipaddress.ip_address() and ipaddress.ip_network(strict=False).          *)
(***************************************************************************)
\* int(text): surrounding whitespace, one optional sign, decimal digits with
\* single underscores between digits
PyIntBody(b) ==
    /\ b # <<>>
    /\ AllIn(b, Digits \cup {"_"})
    /\ b[1] # "_"
    /\ b[Len(b)] # "_"
    /\ \A i \in 1..(Len(b) - 1) : ~(b[i] = "_" /\ b[i + 1] = "_")
PyInt(text) ==
    LET t == Strip(text, Whitespace)
        signed == t # <<>> /\ t[1] \in {"+", "-"}
        body == IF signed THEN Tail(t) ELSE t
    IN  [ok |-> PyIntBody(body),
         neg |-> signed /\ t[1] = "-",
         digits |-> SelectSeq(body, LAMBDA c : c # "_")]

\* 4294967295, digit by digit (the number does not fit the model checker's integers)
MaxAsnDigits == <<"4", "2", "9", "4", "9", "6", "7", "2", "9", "5">>
LexLeq(a, b) ==
    \/ a = b
    \/ \E i \in 1..Len(a) :
          /\ \A j \in 1..(i - 1) : a[j] = b[j]
          /\ DigitVal(a[i]) < DigitVal(b[i])
\* 0 <= asn_int <= 4294967295
AsnInRange(n) ==
    LET mag == LStrip(n.digits, {"0"})
    IN  IF n.neg THEN mag = <<>>
        ELSE \/ Len(mag) < Len(MaxAsnDigits)
             \/ Len(mag) = Len(MaxAsnDigits) /\ LexLeq(mag, MaxAsnDigits)

\* one octet of a dotted quad: ASCII digits, at most three, no leading zero, <= 255
IsOctet(o) ==
    /\ o # <<>>
    /\ AllIn(o, Digits)
    /\ Len(o) <= 3
    /\ (Len(o) > 1 => o[1] # "0")
    /\ ToNat(o) <= 255
IsIPv4Address(a) ==
    LET octets == Split(a, ".")
    IN  Len(octets) = 4 /\ \A i \in 1..4 : IsOctet(octets[i])

IsHextet(h) == h # <<>> /\ Len(h) <= 4 /\ AllIn(h, HexDigits)
\* IPv6Address without a scope id and without a dotted-quad tail
IsIPv6Address(a) ==
    LET parts == Split(a, ":")
        n == Len(parts)
        skips == {i \in 2..(n - 1) : parts[i] = <<>>}
    IN  /\ n >= 3
        /\ n <= 9
        /\ Cardinality(skips) <= 1
        /\ IF skips # {}
           THEN LET k == CHOOSE i \in skips : TRUE
                    hi0 == k - 1
                    lo0 == n - k
                    hi == IF parts[1] = <<>> THEN hi0 - 1 ELSE hi0
                    lo == IF parts[n] = <<>> THEN lo0 - 1 ELSE lo0
                IN  /\ (parts[1] = <<>> => hi = 0)
                    /\ (parts[n] = <<>> => lo = 0)
                    /\ 8 - (hi + lo) >= 1
                    /\ \A i \in 1..hi : IsHextet(parts[i])
                    /\ \A i \in (n - lo + 1)..n : IsHextet(parts[i])
           ELSE /\ n = 8
                /\ \A i \in 1..n : IsHextet(parts[i])
IsIPAddress(a) == IsIPv4Address(a) \/ IsIPv6Address(a)

\* a prefix length: ASCII digits only, value within 0..max
IsPrefixLen(m, max) ==
    /\ m # <<>>
    /\ AllIn(m, Digits)
    /\ Len(m) <= 4
    /\ ToNat(m) <= max
\* a dotted netmask (ones then zeros) or hostmask (zeros then ones)
MaskOctets == {0, 128, 192, 224, 240, 248, 252, 254, 255}
HostOctets == {0, 1, 3, 7, 15, 31, 63, 127, 255}
IsDottedMask(m) ==
    /\ IsIPv4Address(m)
    /\ LET o == [i \in 1..4 |-> ToNat(Split(m, ".")[i])]
       IN  \/ /\ \A i \in 1..4 : o[i] \in MaskOctets
              /\ \A i \in 1..3 : o[i] # 255 => o[i + 1] = 0
           \/ /\ \A i \in 1..4 : o[i] \in HostOctets
              /\ \A i \in 1..3 : o[i] # 0 => o[i + 1] = 255
\* ipaddress.ip_network(text, strict=False) does not raise
IsIPNetwork(text) ==
    LET p == Split(text, "/")
    IN  \/ Len(p) = 1 /\ IsIPAddress(p[1])
        \/ /\ Len(p) = 2
           /\ \/ IsIPv4Address(p[1]) /\ (IsPrefixLen(p[2], 32) \/ IsDottedMask(p[2]))
              \/ IsIPv6Address(p[1]) /\ IsPrefixLen(p[2], 128)

(***************************************************************************)
(* The validators, lines 17-65.  Each returns [ok, val, err]: the value    *)
(* returned, or the ArgumentTypeError raised (err names the offending      *)
(* token, kind the message).                                               *)
(***************************************************************************)
Accept(v) == [ok |-> TRUE, val |-> v, err |-> <<>>, kind |-> "none"]
Reject(tok, k) == [ok |-> FALSE, val |-> <<>>, err |-> tok, kind |-> k]

\* MatchesRrc with the pattern's "$" left out: "rrc" and two digits, then anything
MatchesRrc_Unanchored(t) ==
    /\ Len(t) >= 5
    /\ t[1] = "r" /\ t[2] = "r" /\ t[3] = "c"
    /\ t[4] \in Digits /\ t[5] \in Digits

\* re.match(r"^rrc\d{2}$", rrc): "$" also matches before one trailing newline
MatchesRrc(t) ==
    /\ Len(t) \in {5, 6}
    /\ t[1] = "r" /\ t[2] = "r" /\ t[3] = "c"
    /\ t[4] \in Digits /\ t[5] \in Digits
    /\ (Len(t) = 6 => t[6] = "\n")

validate_rrc(value) ==
    LET rrc_list == StripEach(Split(value, ","))
        bad == FirstBad(rrc_list, MatchesRrc)
    IN  IF bad = 0 THEN Accept(rrc_list) ELSE Reject(rrc_list[bad], "rrc")

validate_peer(value) ==
    IF IsIPAddress(value) THEN Accept(value) ELSE Reject(value, "peer")

\* the inner loop of validate_aspath: every non-empty token is an int in range
AsnTokensOk(clean_path) ==
    LET toks == Split(clean_path, ",")
    IN  \A i \in 1..Len(toks) :
           toks[i] # <<>> => PyInt(toks[i]).ok /\ AsnInRange(PyInt(toks[i]))
AspathOk(path) == AsnTokensOk(Strip(path, {"^", "$"}))

validate_aspath(value) ==
    LET path_list == StripEach(Split(value, ","))
        bad == FirstBad(path_list, AspathOk)
    IN  IF bad = 0 THEN Accept(path_list) ELSE Reject(path_list[bad], "aspath")

PrefixOk(prefix) == Contains(prefix, "/") /\ IsIPNetwork(prefix)

\* validate_prefix without the test of line 58 for a "/"
validate_prefix_NoMaskCheck(value) ==
    LET prefix_list == StripEach(Split(value, ","))
        bad == FirstBad(prefix_list, IsIPNetwork)
    IN  IF bad = 0 THEN Accept(prefix_list) ELSE Reject(prefix_list[bad], "format")

validate_prefix(value) ==
    LET prefix_list == StripEach(Split(value, ","))
        bad == FirstBad(prefix_list, PrefixOk)
    IN  IF bad = 0 THEN Accept(prefix_list)
        ELSE IF ~Contains(prefix_list[bad], "/")
             THEN Reject(prefix_list[bad], "mask")
             ELSE Reject(prefix_list[bad], "format")


(***************************************************************************)
(* The command line, lines 145-223.  argv holds the raw text given to each *)
(* filter option (None when the option is not given) and the four flags.   *)
(***************************************************************************)
T_UPDATE == <<"U", "P", "D", "A", "T", "E">>
T_OPEN == <<"O", "P", "E", "N">>
T_NOTIFICATION == <<"N", "O", "T", "I", "F", "I", "C", "A", "T", "I", "O", "N">>
T_KEEPALIVE == <<"K", "E", "E", "P", "A", "L", "I", "V", "E">>
T_RIS_PEER_STATE == <<"R", "I", "S", "_", "P", "E", "E", "R", "_", "S", "T", "A", "T", "E">>
K_announcements == <<"a", "n", "n", "o", "u", "n", "c", "e", "m", "e", "n", "t", "s">>
K_withdrawals == <<"w", "i", "t", "h", "d", "r", "a", "w", "a", "l", "s">>
TypeChoices == {T_UPDATE, T_OPEN, T_NOTIFICATION, T_KEEPALIVE, T_RIS_PEER_STATE}
KeyChoices == {K_announcements, K_withdrawals}

\* argparse applies an option's type function to its text, None staying None
Convert(raw, validator(_)) ==
    IF IsNone(raw) THEN Accept(None)
    ELSE LET r == validator(Get(raw))
         IN  IF r.ok THEN Accept(Some(r.val)) ELSE r
\* an option with choices: the text must be one of them
InChoices(raw, choices) ==
    IF IsNone(raw) \/ Get(raw) \in choices THEN Accept(raw) ELSE Reject(Get(raw), "choice")

\* parse_args with the prefix option's type function not applied (type=str)
parse_args_PrefixUnchecked(a) ==
    LET host == Convert(a.host, validate_rrc)
        type == InChoices(a.type, TypeChoices)
        key == InChoices(a.key, KeyChoices)
        peer == Convert(a.peer, validate_peer)
        aspath == Convert(a.aspath, validate_aspath)
    IN  [ok |-> host.ok /\ type.ok /\ key.ok /\ peer.ok /\ aspath.ok,
         ns |-> [filter_host |-> host.val,
                 filter_type |-> type.val,
                 filter_key |-> key.val,
                 filter_peer |-> peer.val,
                 filter_aspath |-> aspath.val,
                 filter_prefix |-> a.prefix,
                 more_specific |-> a.more_specific,
                 less_specific |-> a.less_specific,
                 include_raw |-> a.include_raw,
                 disable_auto_reconnect |-> a.disable_auto_reconnect]]

\* parser.parse_args(): the Namespace, or the usage error that ends the process
parse_args(a) ==
    LET host == Convert(a.host, validate_rrc)
        type == InChoices(a.type, TypeChoices)
        key == InChoices(a.key, KeyChoices)
        peer == Convert(a.peer, validate_peer)
        aspath == Convert(a.aspath, validate_aspath)
        prefix == Convert(a.prefix, validate_prefix)
    IN  [ok |-> host.ok /\ type.ok /\ key.ok /\ peer.ok /\ aspath.ok /\ prefix.ok,
         ns |-> [filter_host |-> host.val,
                 filter_type |-> type.val,
                 filter_key |-> key.val,
                 filter_peer |-> peer.val,
                 filter_aspath |-> aspath.val,
                 filter_prefix |-> prefix.val,
                 more_specific |-> a.more_specific,
                 less_specific |-> a.less_specific,
                 include_raw |-> a.include_raw,
                 disable_auto_reconnect |-> a.disable_auto_reconnect]]

(***************************************************************************)
(* RipeRisStreamer._get_ris_params, lines 102-121.  A JSON value is a      *)
(* record with one field per JSON type, and an object is the sequence of   *)
(* its members in insertion order, which is the order json.dumps writes.   *)
(***************************************************************************)
JBool(x) == [t |-> "bool", b |-> x, s |-> <<>>, l |-> <<>>, o |-> <<>>]
JStr(x) == [t |-> "str", b |-> FALSE, s |-> x, l |-> <<>>, o |-> <<>>]
JList(x) == [t |-> "list", b |-> FALSE, s |-> <<>>, l |-> x, o |-> <<>>]
JObj(x) == [t |-> "obj", b |-> FALSE, s |-> <<>>, l |-> <<>>, o |-> x]
Member(k, v) == [k |-> k, v |-> v]

\* Python truth of an optional str or list: not None and not empty
Truthy(x) == ~IsNone(x) /\ Get(x) # <<>>
\* x[0] of a list is its first element; x[0] of a str is its first character
FirstOfList(x) == x[1]
FirstOfStr(x) == <<x[1]>>

\* optional_params sending the AS-path expressions without their anchors
optional_params_AnchorsDropped(o) ==
    << Member("host", IF Truthy(o.filter_host)
                      THEN Some(JStr(FirstOfList(Get(o.filter_host)))) ELSE None),
       Member("type", IF IsNone(o.filter_type)
                      THEN None ELSE Some(JStr(Get(o.filter_type)))),
       Member("require", IF Truthy(o.filter_key)
                         THEN Some(JStr(FirstOfStr(Get(o.filter_key)))) ELSE None),
       Member("peer", IF IsNone(o.filter_peer)
                      THEN None ELSE Some(JStr(Get(o.filter_peer)))),
       Member("path", IF Truthy(o.filter_aspath)
                      THEN Some(JStr(Join([i \in 1..Len(Get(o.filter_aspath)) |->
                                             Strip(Get(o.filter_aspath)[i], {"^", "$"})],
                                          ",")))
                      ELSE None),
       Member("prefix", IF Truthy(o.filter_prefix)
                        THEN Some(JList(Get(o.filter_prefix))) ELSE None) >>

optional_params(o) ==
    << Member("host", IF Truthy(o.filter_host)
                      THEN Some(JStr(FirstOfList(Get(o.filter_host)))) ELSE None),
       Member("type", IF IsNone(o.filter_type)
                      THEN None ELSE Some(JStr(Get(o.filter_type)))),
       Member("require", IF Truthy(o.filter_key)
                         THEN Some(JStr(FirstOfStr(Get(o.filter_key)))) ELSE None),
       Member("peer", IF IsNone(o.filter_peer)
                      THEN None ELSE Some(JStr(Get(o.filter_peer)))),
       Member("path", IF Truthy(o.filter_aspath)
                      THEN Some(JStr(Join(Get(o.filter_aspath), ","))) ELSE None),
       Member("prefix", IF Truthy(o.filter_prefix)
                        THEN Some(JList(Get(o.filter_prefix))) ELSE None) >>

\* {k: v for k, v in optional_params.items() if v is not None}
NotNoneMembers(ms) ==
    LET kept == SelectSeq(ms, LAMBDA m : ~IsNone(m.v))
    IN  [i \in 1..Len(kept) |-> Member(kept[i].k, Get(kept[i].v))]

\* lines 104-109: the feed options, always present
feed_options(o) ==
    << Member("socketOptions", JObj(<<Member("includeRaw", JBool(o.include_raw))>>)),
       Member("moreSpecific", JBool(o.more_specific)),
       Member("lessSpecific", JBool(o.less_specific)),
       Member("autoReconnect", JBool(~o.disable_auto_reconnect)) >>

\* _get_ris_params taking the next collector of the list on every new connection
_get_ris_params_Rotating(o) ==
    LET hosts == Get(o.filter_host)
        n == IF Len(conns) < Len(hosts) THEN Len(conns) + 1 ELSE Len(hosts)
        opt == optional_params(o)
        rotated == IF Truthy(o.filter_host)
                   THEN [opt EXCEPT ![1] = Member("host", Some(JStr(hosts[n])))]
                   ELSE opt
    IN  [type |-> "ris_subscribe",
         data |-> feed_options(o) \o NotNoneMembers(rotated)]

_get_ris_params(o) ==
    [type |-> "ris_subscribe",
     data |-> feed_options(o) \o NotNoneMembers(optional_params(o))]

\* reading the payload back: the members of "data" with a given key
HasKey(payload, k) == \E i \in 1..Len(payload.data) : payload.data[i].k = k
Value(payload, k) ==
    payload.data[CHOOSE i \in 1..Len(payload.data) : payload.data[i].k = k].v


(***************************************************************************)
(* The run: main(), RipeRisStreamer.start_streaming, disconnect and the    *)
(* shutdown tasks, as asyncio runs them.  A task runs from one await to    *)
(* the next without interruption, so every action below is one such step.  *)
(***************************************************************************)
\* what the transport can raise: a builtin ConnectionError (ConnectionRefusedError,
\* ConnectionResetError, ...), or any other exception (the websockets library's
\* ConnectionClosedError and InvalidHandshake, ssl.SSLError, socket.gaierror, ...)
TransportErrors == {"ConnectionError", "OtherException"}
SinkOutcomes == {"ok", "ValueError"}

AwaitPoints == {"connecting", "sending", "receiving", "aexit"}
Finished == {"usage_error", "done", "crashed"}
\* the event loop can run something else only while the main task is suspended or over
MainSuspended == pc \in AwaitPoints \cup Finished
HandlerInstalled == pc \in AwaitPoints

\* a connection: its state and the payloads handed to its send
NewConn(payload) == [state |-> "open", sent |-> <<payload>>]
\* a run of start_streaming on connection c: whether the send has completed, the
\* messages received and those handed to print, what print did with the last one
\* ("ok", or "ValueError", which line 100 reports), how the session ended,
\* the close() calls made on c by the async with block and by shutdown tasks, and
\* the messages handed to print after a shutdown task had called close() on c
NewSession(c) ==
    [conn |-> c, subscribed |-> FALSE, recvd |-> <<>>, delivered |-> <<>>,
     lastSink |-> "none", ended |-> "no", closedByMain |-> 0, closedByShutdown |-> 0,
     afterClose |-> 0]

\* websocket.close() called on connection c: the close begins if c is open
CloseCalled(cs, c) == [cs EXCEPT ![c].state = IF @ = "open" THEN "closing" ELSE @]

\* lines 249-254: what main() does with an exception start_streaming raises
AfterException(e) ==
    CASE e = "none" -> "loop"
      [] e = "ConnectionError" -> "loop"
      [] e = "CancelledError" -> "done"
      [] OTHER -> "crashed"

ArgvOf(h, t, k, p, a, f, m, l, r, d) ==
    [host |-> h, type |-> t, key |-> k, peer |-> p, aspath |-> a, prefix |-> f,
     more_specific |-> m, less_specific |-> l, include_raw |-> r,
     disable_auto_reconnect |-> d]


(***************************************************************************)
(* The main task.                                                          *)
(***************************************************************************)
\* lines 223-243: parse the command line, create the streamer, install the handler
ParseArgs ==
    /\ pc = "parse"
    /\ validated' = validated + 1
    /\ LET r == parse_args(argv)
       IN  IF r.ok
           THEN options' = Some(r.ns) /\ pc' = "loop"
           ELSE options' = options /\ pc' = "usage_error"
    /\ UNCHANGED <<argv, ws, websocket, exc, conns, session, msgs, cancelMain,
                   tasks, attempts, failures, built>>

\* line 246 and lines 248, 87-89: the loop test, then start_streaming up to connect()
RunLoop ==
    /\ pc = "loop"
    /\ IF Get(options).disable_auto_reconnect
       THEN pc' = "done" /\ attempts' = attempts
       ELSE pc' = "connecting" /\ attempts' = IF attempts < 2 THEN attempts + 1 ELSE 2
    /\ UNCHANGED <<argv, options, ws, websocket, exc, conns, session, msgs,
                   cancelMain, tasks, failures, validated, built>>

\* ConnectOk with line 93 forgotten: the reception loop starts with nothing sent
ConnectOk_NoSend ==
    /\ pc = "connecting"
    /\ ~cancelMain
    /\ conns' = Append(conns, [state |-> "open", sent |-> <<>>])
    /\ session' = NewSession(Len(conns) + 1)
    /\ ws' = Len(conns) + 1
    /\ websocket' = Len(conns) + 1
    /\ pc' = "receiving"
    /\ UNCHANGED <<argv, options, exc, msgs, cancelMain, tasks, attempts, failures,
                   validated, built>>

\* lines 89-93: the connection opens; self._ws is set and the subscription is
\* handed to websocket.send before the task is suspended again
ConnectOk ==
    /\ pc = "connecting"
    /\ ~cancelMain
    /\ conns' = Append(conns, NewConn(_get_ris_params(Get(options))))
    /\ session' = NewSession(Len(conns) + 1)
    /\ ws' = Len(conns) + 1
    /\ websocket' = Len(conns) + 1
    /\ pc' = "sending"
    /\ UNCHANGED <<argv, options, exc, msgs, cancelMain, tasks, attempts, failures,
                   validated, built>>

\* line 89: connect() raises; there is no connection to close
ConnectFail(e) ==
    /\ pc = "connecting"
    /\ ~cancelMain
    /\ failures < MaxFailures
    /\ failures' = failures + 1
    /\ pc' = AfterException(e)
    /\ UNCHANGED <<argv, options, ws, websocket, exc, conns, session, msgs,
                   cancelMain, tasks, attempts, validated, built>>

\* leaving the async with block of line 89 with exception e: __aexit__ closes
LeaveBlock(e, how) ==
    /\ exc' = e
    /\ pc' = "aexit"
    /\ session' = [session EXCEPT !.ended = how, !.closedByMain = @ + 1]
    /\ conns' = CloseCalled(conns, websocket)

\* the remote side may end or fail a session that is open while its budget lasts;
\* a session whose connection is being closed ends in any case
MayEnd == conns[websocket].state # "open" \/ failures < MaxFailures
CountEnd == failures' = IF conns[websocket].state = "open" THEN failures + 1 ELSE failures

\* lines 93-95: the send completes
SendOk ==
    /\ pc = "sending"
    /\ ~cancelMain
    /\ conns[websocket].state = "open"
    /\ session' = [session EXCEPT !.subscribed = TRUE]
    /\ pc' = "receiving"
    /\ UNCHANGED <<argv, options, ws, websocket, exc, conns, msgs, cancelMain, tasks,
                   attempts, failures, validated, built>>

\* line 93: the send raises
SendFail(e) ==
    /\ pc = "sending"
    /\ ~cancelMain
    /\ MayEnd
    /\ CountEnd
    /\ LeaveBlock(e, "sendfail")
    /\ UNCHANGED <<argv, options, ws, websocket, msgs, cancelMain, tasks, attempts,
                   validated, built>>

\* RecvMessage handing the newest message to print ahead of the earlier ones
RecvMessage_NewestFirst(outcome) ==
    /\ pc = "receiving"
    /\ ~cancelMain
    /\ conns[websocket].state # "closed"
    /\ msgs < MaxMsgs
    /\ msgs' = msgs + 1
    /\ session' = [session EXCEPT
                     !.recvd = Append(@, msgs + 1),
                     !.delivered = <<msgs + 1>> \o @,
                     !.lastSink = outcome,
                     !.afterClose = IF session.closedByShutdown > 0 THEN @ + 1 ELSE @]
    /\ UNCHANGED <<argv, pc, options, ws, websocket, exc, conns, cancelMain, tasks,
                   attempts, failures, validated, built>>

\* lines 96-100: the next message arrives (the k-th message of the run is k) and is
\* printed; a ValueError of the sink is caught and reported
RecvMessage(outcome) ==
    /\ pc = "receiving"
    /\ ~cancelMain
    /\ conns[websocket].state # "closed"
    /\ msgs < MaxMsgs
    /\ msgs' = msgs + 1
    /\ session' = [session EXCEPT
                     !.recvd = Append(@, msgs + 1),
                     !.delivered = Append(@, msgs + 1),
                     !.lastSink = outcome,
                     !.afterClose = IF session.closedByShutdown > 0 THEN @ + 1 ELSE @]
    /\ UNCHANGED <<argv, pc, options, ws, websocket, exc, conns, cancelMain, tasks,
                   attempts, failures, validated, built>>

\* lines 96-99: the next message arrives and print raises an exception that is not
\* a ValueError (a BrokenPipeError, which is a ConnectionError, when the standard
\* output is a closed pipe; another OSError otherwise): it leaves the loop
SinkErrors == {"ConnectionError", "OtherException"}
RecvSinkRaises(e) ==
    /\ pc = "receiving"
    /\ ~cancelMain
    /\ conns[websocket].state # "closed"
    /\ msgs < MaxMsgs
    /\ failures < MaxFailures
    /\ msgs' = msgs + 1
    /\ failures' = failures + 1
    /\ exc' = e
    /\ pc' = "aexit"
    /\ session' = [session EXCEPT
                     !.recvd = Append(@, msgs + 1),
                     !.delivered = Append(@, msgs + 1),
                     !.lastSink = e,
                     !.afterClose = IF session.closedByShutdown > 0 THEN @ + 1 ELSE @,
                     !.ended = "sink",
                     !.closedByMain = @ + 1]
    /\ conns' = CloseCalled(conns, websocket)
    /\ UNCHANGED <<argv, options, ws, websocket, cancelMain, tasks, attempts,
                   validated, built>>

\* line 96: the stream ends with a normal close; the loop is left without exception
RecvEnd ==
    /\ pc = "receiving"
    /\ ~cancelMain
    /\ MayEnd
    /\ CountEnd
    /\ LeaveBlock("none", "clean")
    /\ UNCHANGED <<argv, options, ws, websocket, msgs, cancelMain, tasks, attempts,
                   validated, built>>

\* line 96: the connection drops; the receive raises
RecvError(e) ==
    /\ pc = "receiving"
    /\ ~cancelMain
    /\ MayEnd
    /\ CountEnd
    /\ LeaveBlock(e, "drop")
    /\ UNCHANGED <<argv, options, ws, websocket, msgs, cancelMain, tasks, attempts,
                   validated, built>>

\* CancelledError is raised at the await the main task is suspended in
MainCancelled ==
    /\ cancelMain
    /\ pc \in AwaitPoints
    /\ cancelMain' = FALSE
    /\ IF pc \in {"sending", "receiving"}
       THEN LeaveBlock("CancelledError", "cancelled") /\ websocket' = websocket
       ELSE /\ pc' = AfterException("CancelledError")
            /\ exc' = "none"
            /\ websocket' = 0
            /\ conns' = conns
            /\ session' = session
    /\ UNCHANGED <<argv, options, ws, msgs, tasks, attempts, failures, validated,
                   built>>

\* AexitDone not waiting for the close to be over
AexitDone_NoWait ==
    /\ pc = "aexit"
    /\ ~cancelMain
    /\ pc' = AfterException(exc)
    /\ exc' = "none"
    /\ websocket' = 0
    /\ UNCHANGED <<argv, options, ws, conns, session, msgs, cancelMain, tasks,
                   attempts, failures, validated, built>>

\* the close that __aexit__ awaits is over: the exception in flight, if any, reaches
\* lines 249-254
AexitDone ==
    /\ pc = "aexit"
    /\ ~cancelMain
    /\ conns[websocket].state = "closed"
    /\ pc' = AfterException(exc)
    /\ exc' = "none"
    /\ websocket' = 0
    /\ UNCHANGED <<argv, options, ws, conns, session, msgs, cancelMain, tasks,
                   attempts, failures, validated, built>>

\* the transport finishes closing a connection (closing handshake or its timeout)
ConnCloses(c) ==
    /\ c \in 1..Len(conns)
    /\ conns[c].state = "closing"
    /\ conns' = [conns EXCEPT ![c].state = "closed"]
    /\ UNCHANGED <<argv, pc, options, ws, websocket, exc, session, msgs, cancelMain,
                   tasks, attempts, failures, validated, built>>

(***************************************************************************)
(* The shutdown tasks, lines 232-243.                                      *)
(***************************************************************************)
\* a shutdown task: where it is, the connection whose close it awaits, whether it
\* has a cancellation pending, and the tasks its gather waits for
NewTask == [pc |-> "new", target |-> 0, cancel |-> FALSE, waitsMain |-> FALSE,
            waits |-> {}]
\* a task that is over: it returned ("done") or ended by CancelledError ("cancelled")
Ended(how) == [NewTask EXCEPT !.pc = how]
Over(t) == t.pc \in {"done", "cancelled"}

\* line 243: SIGINT arrives and the handler creates a shutdown task
Signal ==
    /\ HandlerInstalled
    /\ Len(tasks) < MaxSignals
    /\ tasks' = Append(tasks, NewTask)
    /\ UNCHANGED <<argv, pc, options, ws, websocket, exc, conns, session, msgs,
                   cancelMain, attempts, failures, validated, built>>

\* CancelOthers cancelling the main task only, not the other shutdown tasks
CancelOthers_MainOnly(i) ==
    LET others == {k \in 1..Len(tasks) : k # i /\ ~Over(tasks[k])}
        alone == pc \in Finished /\ others = {}
    IN  /\ tasks' = [tasks EXCEPT ![i] =
                        IF alone THEN Ended("done")
                        ELSE [@ EXCEPT !.pc = "gather",
                                       !.target = 0,
                                       !.waitsMain = pc \notin Finished,
                                       !.waits = others]]
        /\ cancelMain' = (cancelMain \/ pc \notin Finished)

\* lines 236-240: cancel every task that is not over but this one, then wait for
\* them.  gather() of no task returns at once, and the task goes on to loop.stop()
\* and ends.  A gather of some task suspends the shutdown task, and it never
\* returns: the last task it waits for to end is main (or ends after main), and
\* when main() is over asyncio.run stops the loop and cancels the tasks that are
\* left before the callbacks of that end have resumed the shutdown task.
CancelOthers(i) ==
    LET others == {k \in 1..Len(tasks) : k # i /\ ~Over(tasks[k])}
        alone == pc \in Finished /\ others = {}
    IN  /\ tasks' = [j \in 1..Len(tasks) |->
                       IF j = i
                       THEN IF alone THEN Ended("done")
                            ELSE [tasks[j] EXCEPT
                                     !.pc = "gather",
                                     !.target = 0,
                                     !.waitsMain = pc \notin Finished,
                                     !.waits = others]
                       ELSE IF Over(tasks[j]) THEN tasks[j]
                       ELSE [tasks[j] EXCEPT !.cancel = TRUE]]
        /\ cancelMain' = (cancelMain \/ pc \notin Finished)

\* the event loop runs the first steps of the tasks in the order of their creation
FirstToStart(i) == \A j \in 1..(i - 1) : tasks[j].pc # "new"

\* lines 233-234, 123-127: the task starts and calls disconnect
ShutdownStart(i) ==
    /\ i \in 1..Len(tasks)
    /\ tasks[i].pc = "new"
    /\ FirstToStart(i)
    /\ ~tasks[i].cancel
    /\ MainSuspended
    /\ IF ws # 0
       THEN /\ conns' = CloseCalled(conns, ws)
            /\ session' = [session EXCEPT !.closedByShutdown = @ + 1]
            /\ tasks' = [tasks EXCEPT ![i].pc = "closewait", ![i].target = ws]
            /\ cancelMain' = cancelMain
       ELSE /\ CancelOthers(i)
            /\ conns' = conns
            /\ session' = session
    /\ UNCHANGED <<argv, pc, options, ws, websocket, exc, msgs, attempts, failures,
                   validated, built>>

\* lines 126, 235-239: the close disconnect awaited is over
ShutdownClosed(i) ==
    /\ i \in 1..Len(tasks)
    /\ tasks[i].pc = "closewait"
    /\ ~tasks[i].cancel
    /\ MainSuspended
    /\ conns[tasks[i].target].state = "closed"
    /\ CancelOthers(i)
    /\ UNCHANGED <<argv, pc, options, ws, websocket, exc, conns, session, msgs,
                   attempts, failures, validated, built>>

\* CancelledError is raised in a shutdown task, which has no handler for it
ShutdownCancelled(i) ==
    /\ i \in 1..Len(tasks)
    /\ tasks[i].cancel
    /\ ~Over(tasks[i])
    /\ tasks[i].pc = "new" => FirstToStart(i)
    /\ MainSuspended
    /\ tasks' = [tasks EXCEPT ![i] = Ended("cancelled")]
    /\ UNCHANGED <<argv, pc, options, ws, websocket, exc, conns, session, msgs,
                   cancelMain, attempts, failures, validated, built>>

\* line 259: main() is over, and asyncio.run cancels the tasks that are left
AsyncioRunExit ==
    /\ pc \in {"done", "crashed"}
    /\ \E j \in 1..Len(tasks) : ~Over(tasks[j]) /\ ~tasks[j].cancel
    /\ tasks' = [j \in 1..Len(tasks) |->
                   IF Over(tasks[j]) THEN tasks[j] ELSE [tasks[j] EXCEPT !.cancel = TRUE]]
    /\ UNCHANGED <<argv, pc, options, ws, websocket, exc, conns, session, msgs,
                   cancelMain, attempts, failures, validated, built>>


(***************************************************************************)
(* Command lines the model runs.                                           *)
(***************************************************************************)
HostTwo == <<"r", "r", "c", "0", "1", ",", "r", "r", "c", "0", "2">>
HostBad == <<"r", "r", "c", "1">>
TypeBad == <<"B", "G", "P">>
KeyBad == <<"b", "o", "t", "h">>
PeerV4 == <<"1", "9", "2", ".", "0", ".", "2", ".", "1">>
PeerV6 == <<"2", "0", "0", "1", ":", "d", "b", "8", ":", ":", "1">>
PeerBad == <<"1", "9", "2", ".", "0", ".", "2">>
PathAnchored == <<"^", "1", "2", "3", ",", "4", "5", "6", "$">>
PathEmpty == <<>>
PathBad == <<"^", "1", "2", ",", "a", "b", "$">>
PrefixOne == <<"2", "0", "3", ".", "0", ".", "1", "1", "3", ".", "0", "/", "2", "4">>
PrefixTwo == <<"2", "0", "0", "1", ":", "d", "b", "8", ":", ":", "/", "3", "2", ",",
               "1", "0", ".", "0", ".", "0", ".", "1", "/", "8">>
PrefixNoMask == <<"1", "9", "2", ".", "0", ".", "2", ".", "0">>
PrefixBad == <<"1", "9", "2", ".", "0", ".", "2", ".", "0", "/", "3", "3">>

NoFilters(d) == ArgvOf(None, None, None, None, None, None, FALSE, FALSE, FALSE, d)
\* the command lines of the runs: a valid one with every filter, a valid one with
\* -d, and one that fails each validator
ArgvRun ==
    { NoFilters(TRUE),
      ArgvOf(Some(HostTwo), Some(T_UPDATE), Some(K_withdrawals), Some(PeerV4),
             Some(PathAnchored), Some(PrefixOne), TRUE, FALSE, TRUE, FALSE),
      ArgvOf(Some(HostBad), None, None, None, None, None, FALSE, FALSE, FALSE, FALSE),
      ArgvOf(Some(HostTwo), None, None, Some(PeerBad), None, None,
             FALSE, FALSE, FALSE, FALSE),
      ArgvOf(None, None, None, None, Some(PathBad), None, FALSE, FALSE, FALSE, FALSE),
      ArgvOf(None, None, None, Some(PeerV4), None, Some(PrefixNoMask),
             FALSE, FALSE, FALSE, FALSE),
      ArgvOf(None, None, None, None, None, Some(PrefixBad), FALSE, TRUE, FALSE, TRUE) }

\* every combination of an absent, a valid and an invalid text for each filter
ArgvAll ==
    { ArgvOf(h, t, k, p, a, f, m, l, r, d) :
        h \in {None, Some(HostTwo), Some(HostBad)},
        t \in {None, Some(T_UPDATE), Some(TypeBad)},
        k \in {None, Some(K_announcements), Some(K_withdrawals), Some(KeyBad)},
        p \in {None, Some(PeerV4), Some(PeerV6), Some(PeerBad)},
        a \in {None, Some(PathAnchored), Some(PathEmpty), Some(PathBad)},
        f \in {None, Some(PrefixOne), Some(PrefixTwo), Some(PrefixNoMask),
               Some(PrefixBad)},
        m \in BOOLEAN, l \in BOOLEAN, r \in BOOLEAN, d \in BOOLEAN }

(***************************************************************************)
(* The specifications.                                                     *)
(***************************************************************************)
Start(a) ==
    /\ argv = a
    /\ pc = "parse"
    /\ options = None
    /\ ws = 0
    /\ websocket = 0
    /\ exc = "none"
    /\ conns = <<>>
    /\ session = NewSession(0)
    /\ msgs = 0
    /\ cancelMain = FALSE
    /\ tasks = <<>>
    /\ attempts = 0
    /\ failures = 0
    /\ validated = 0
    /\ built = None

Init == \E a \in ArgvRun : Start(a)

Next ==
    \/ ParseArgs
    \/ RunLoop
    \/ ConnectOk
    \/ \E e \in TransportErrors : ConnectFail(e)
    \/ SendOk
    \/ \E e \in TransportErrors : SendFail(e)
    \/ \E outcome \in SinkOutcomes : RecvMessage(outcome)
    \/ \E e \in SinkErrors : RecvSinkRaises(e)
    \/ RecvEnd
    \/ \E e \in TransportErrors : RecvError(e)
    \/ MainCancelled
    \/ AexitDone
    \/ \E c \in 1..Len(conns) : ConnCloses(c)
    \/ Signal
    \/ \E i \in 1..Len(tasks) : ShutdownStart(i)
    \/ \E i \in 1..Len(tasks) : ShutdownClosed(i)
    \/ \E i \in 1..Len(tasks) : ShutdownCancelled(i)
    \/ AsyncioRunExit

Spec == Init /\ [][Next]_vars

\* The event loop runs every task that is ready, a send completes or fails, and
\* the transport finishes every close it has begun.
MainStep == RunLoop \/ SendOk \/ (\E e \in TransportErrors : SendFail(e))
            \/ MainCancelled \/ AexitDone
ShutdownStep == \E i \in 1..Len(tasks) :
                   ShutdownStart(i) \/ ShutdownClosed(i) \/ ShutdownCancelled(i)
FairSpec ==
    /\ Spec
    /\ WF_vars(MainStep)
    /\ WF_vars(ShutdownStep)
    /\ WF_vars(\E c \in 1..Len(conns) : ConnCloses(c))
    /\ WF_vars(AsyncioRunExit)

\* _get_ris_params applied on its own to the parsed options
BuildParams ==
    /\ pc = "loop"
    /\ IsNone(built)
    /\ built' = Some(_get_ris_params(Get(options)))
    /\ UNCHANGED <<argv, pc, options, ws, websocket, exc, conns, session, msgs,
                   cancelMain, tasks, attempts, failures, validated>>

InitArgs == \E a \in ArgvAll : Start(a)
NextArgs == ParseArgs \/ BuildParams
SpecArgs == InitArgs /\ [][NextArgs]_vars



(***************************************************************************)
(* The validators applied on their own to texts put together from at most  *)
(* MaxPieces pieces.                                                       *)
(***************************************************************************)
RECURSIVE Concat(_)
Concat(l) == IF l = <<>> THEN <<>> ELSE Head(l) \o Concat(Tail(l))
TextsOf(pieces, n) ==
    {Concat(f) : f \in UNION {[1..k -> pieces] : k \in 0..n}}

RrcPieces == {<<"r", "r", "c">>, <<"r", "r", "c", "0", "1">>, <<"1">>, <<"1", "2">>,
              <<",">>, <<" ">>, <<"\n">>, <<"x">>}
AspathPieces == {<<"^">>, <<"$">>, <<",">>, <<"1", "2">>, <<"a">>, <<"+">>, <<" ">>, <<"4", "2", "9", "4", "9", "6", "7", "2", "9", "6">>}
PrefixPieces == {<<"1", "0", ".", "0", ".", "0", ".", "1">>, <<"/", "8">>, <<"/", "3", "3">>, <<"/">>, <<",">>, <<"2", "0", "0", "1", ":", "d", "b", "8", ":", ":">>, <<" ">>, <<"/", "2", "5", "5", ".", "0", ".", "0", ".", "0">>}
RrcTexts == TextsOf(RrcPieces, MaxPieces)
AspathTexts ==
    TextsOf(AspathPieces, MaxPieces)
        \cup {<<"^", "1", "2", "3", ",", "4", "5", "6", ",", "7", "8", "9", "$">>,
              <<"^", "1", "2", "3", ",", "a", "b", "c", ",", "7", "8", "9", "$">>,
              <<"4", "2", "9", "4", "9", "6", "7", "2", "9", "5">>}
PrefixTexts == TextsOf(PrefixPieces, MaxPieces)

\* lines 17-23
ValidateRrc ==
    /\ pc = "parse"
    /\ ~IsNone(argv.host)
    /\ IsNone(built)
    /\ built' = Some(validate_rrc(Get(argv.host)))
    /\ UNCHANGED <<argv, pc, options, ws, websocket, exc, conns, session, msgs,
                   cancelMain, tasks, attempts, failures, validated>>
\* lines 35-50
ValidateAspath ==
    /\ pc = "parse"
    /\ ~IsNone(argv.aspath)
    /\ IsNone(built)
    /\ built' = Some(validate_aspath(Get(argv.aspath)))
    /\ UNCHANGED <<argv, pc, options, ws, websocket, exc, conns, session, msgs,
                   cancelMain, tasks, attempts, failures, validated>>
\* lines 53-65
ValidatePrefix ==
    /\ pc = "parse"
    /\ ~IsNone(argv.prefix)
    /\ IsNone(built)
    /\ built' = Some(validate_prefix(Get(argv.prefix)))
    /\ UNCHANGED <<argv, pc, options, ws, websocket, exc, conns, session, msgs,
                   cancelMain, tasks, attempts, failures, validated>>

InitValidators ==
    \/ \E t \in RrcTexts :
          Start(ArgvOf(Some(t), None, None, None, None, None, FALSE, FALSE, FALSE, FALSE))
    \/ \E t \in AspathTexts :
          Start(ArgvOf(None, None, None, None, Some(t), None, FALSE, FALSE, FALSE, FALSE))
    \/ \E t \in PrefixTexts :
          Start(ArgvOf(None, None, None, None, None, Some(t), FALSE, FALSE, FALSE, FALSE))
NextValidators == ValidateRrc \/ ValidateAspath \/ ValidatePrefix
SpecValidators == InitValidators /\ [][NextValidators]_vars

(***************************************************************************)
(* The claims.                                                             *)
(***************************************************************************)
\* C1: every connection start_streaming opens has the subscription handed to its
\* send exactly once, and no message is handed to print, nor is the reception loop
\* entered, before that send has completed.
C1_SubscribedOncePerConnection ==
    /\ \A c \in 1..Len(conns) : Len(conns[c].sent) = 1
    /\ session.delivered # <<>> => session.subscribed
    /\ pc = "receiving" => session.subscribed
\* a reconnect on which a message has been delivered
C1_Witness == Len(conns) >= 2 /\ session.conn = Len(conns) /\ session.delivered # <<>>

\* C2: once a shutdown task has begun (it has called disconnect), the main task
\* never starts another connection attempt.
ShutdownBegun == \E i \in 1..Len(tasks) : tasks[i].pc # "new"
C2_NoConnectAfterShutdown ==
    [][ShutdownBegun => ~(pc # "connecting" /\ pc' = "connecting")]_vars

\* C3: from Streaming, once a shutdown task has asked for the close of the
\* connection, the reception loop handles at most one more message.
C3_ClosedWithinOneReceive == session.afterClose <= 1

\* C4: with auto-reconnect enabled and no interrupt signal, a connection that drops
\* during Streaming never ends the run loop.
C4_DropNeverEndsRunLoop ==
    ~(session.ended = "drop" /\ tasks = <<>> /\ pc \in Finished)

\* C5: with auto-reconnect disabled, valid filters and no interrupt signal, the run
\* that has ended has made exactly one connection attempt.
C5_OneAttemptWhenDisabled ==
    (/\ pc = "done"
     /\ ~IsNone(options)
     /\ Get(options).disable_auto_reconnect
     /\ tasks = <<>>) => attempts = 1

\* C6: when a supplied collector, peer, AS-path or prefix filter fails its
\* validator, the run never leaves argument parsing: no Namespace, no connection
\* attempt, no connection, no payload.
Fails(raw, validator(_)) == ~IsNone(raw) /\ ~validator(Get(raw)).ok
AnyFilterInvalid(a) ==
    \/ Fails(a.host, validate_rrc)
    \/ Fails(a.peer, validate_peer)
    \/ Fails(a.aspath, validate_aspath)
    \/ Fails(a.prefix, validate_prefix)
\* the command lines of the runs that hold an invalid filter
InvalidArgv == {a \in ArgvRun : AnyFilterInvalid(a)}
C6_InvalidNeverConnects ==
    argv \in InvalidArgv =>
        /\ pc \in {"parse", "usage_error"}
        /\ IsNone(options)
        /\ attempts = 0
        /\ conns = <<>>
C6_Witness == argv \in InvalidArgv /\ pc = "usage_error" /\ validated = 1

\* C7: whatever the number of interrupt signals, the shutdown tasks call close() at
\* most once on a connection.
C7_ShutdownClosesOnce == session.closedByShutdown <= 1

\* C8: the payload's "require" is the key given with --key, and is absent when
\* none is given.
C8_RequireIsSuppliedKey ==
    ~IsNone(built) =>
        IF IsNone(argv.key)
        THEN ~HasKey(Get(built), "require")
        ELSE /\ HasKey(Get(built), "require")
             /\ Value(Get(built), "require") = JStr(Get(argv.key))

\* C9: the payload holds the four feed options, holds each optional key exactly
\* when its filter was given, and no optional key holds an empty string.
OptionalKeys == {"host", "type", "require", "peer", "path", "prefix"}
Supplied(k) ==
    CASE k = "host" -> ~IsNone(argv.host)
      [] k = "type" -> ~IsNone(argv.type)
      [] k = "require" -> ~IsNone(argv.key)
      [] k = "peer" -> ~IsNone(argv.peer)
      [] k = "path" -> ~IsNone(argv.aspath)
      [] k = "prefix" -> ~IsNone(argv.prefix)
C9_PayloadKeys ==
    ~IsNone(built) =>
        /\ \A k \in {"socketOptions", "moreSpecific", "lessSpecific", "autoReconnect"} :
              HasKey(Get(built), k)
        /\ \A k \in OptionalKeys :
              /\ HasKey(Get(built), k) <=> Supplied(k)
              /\ HasKey(Get(built), k) =>
                    ~(Value(Get(built), k).t = "str" /\ Value(Get(built), k).s = <<>>)

\* C10: the payloads sent on the connections of a run are all the same, the one
\* _get_ris_params gives for the parsed command line, and the options stay what
\* parse_args returned.
Parsed == [a \in ArgvRun |-> parse_args(a).ns]
Subscription == [a \in ArgvRun |-> _get_ris_params(Parsed[a])]
C10_SamePayloadEveryConnection ==
    /\ \A c \in 1..Len(conns) : conns[c].sent = <<Subscription[argv]>>
    /\ ~IsNone(options) => Get(options) = Parsed[argv]
\* a run that has reconnected with collector, key, path and prefix filters set
C10_Witness ==
    /\ Len(conns) >= 2
    /\ ~IsNone(argv.host)
    /\ conns[Len(conns)].sent # <<>>

\* C11: handing a received message to print never takes the main task out of the
\* reception loop, whatever print does with the message.
C11_SinkFailureKeepsLoop ==
    [][(pc = "receiving" /\ msgs' = msgs + 1) => pc' = "receiving"]_vars

\* C12: on the connection of a session, the messages handed to print are a prefix
\* of the messages received, each once, in arrival order, and at most one received
\* message is not handed over yet.
IsPrefix(p, q) == Len(p) <= Len(q) /\ p = SubSeq(q, 1, Len(p))
C12_DeliveredIsPrefixOfReceived ==
    /\ IsPrefix(session.delivered, session.recvd)
    /\ Len(session.recvd) - Len(session.delivered) <= 1
    /\ \A i, j \in 1..Len(session.recvd) : i < j => session.recvd[i] < session.recvd[j]
\* a session in which two messages were handed to print, the last raising ValueError
C12_Witness ==
    /\ Len(session.delivered) >= 2
    /\ session.lastSink = "ValueError"
    /\ pc = "receiving"

\* C13: in the payload, "host" is the first collector of the validated list, "path"
\* is the validated AS-path expressions joined with "," and holds the "^" and "$"
\* of the text entered, and "prefix" is the list of the validated prefixes in the
\* order entered.
Anchors(text) == SelectSeq(text, LAMBDA c : c \in {"^", "$"})
C13_ListFilters ==
    ~IsNone(built) =>
        /\ ~IsNone(argv.host) =>
              /\ HasKey(Get(built), "host")
              /\ Value(Get(built), "host") = JStr(validate_rrc(Get(argv.host)).val[1])
        /\ ~IsNone(argv.aspath) =>
              /\ HasKey(Get(built), "path")
              /\ Value(Get(built), "path").t = "str"
              /\ Split(Value(Get(built), "path").s, ",")
                    = validate_aspath(Get(argv.aspath)).val
              /\ Anchors(Value(Get(built), "path").s) = Anchors(Get(argv.aspath))
        /\ ~IsNone(argv.prefix) =>
              /\ HasKey(Get(built), "prefix")
              /\ Value(Get(built), "prefix")
                    = JList(validate_prefix(Get(argv.prefix)).val)
\* a payload built from two collectors, an anchored AS-path and two prefixes
C13_Witness ==
    /\ ~IsNone(built)
    /\ argv.host = Some(HostTwo)
    /\ argv.aspath = Some(PathAnchored)
    /\ argv.prefix = Some(PrefixTwo)
    /\ Len(Value(Get(built), "prefix").l) = 2

\* C14: validate_aspath accepts a text exactly when every comma-separated token of
\* it, trimmed, is a base-10 integer within 0..4294967295 with at most one "^"
\* before it and at most one "$" after it.
IsAnchoredAsn(tok) ==
    LET a == IF tok # <<>> /\ Head(tok) = "^" THEN Tail(tok) ELSE tok
        d == IF a # <<>> /\ a[Len(a)] = "$" THEN SubSeq(a, 1, Len(a) - 1) ELSE a
    IN  /\ d # <<>>
        /\ AllIn(d, Digits)
        /\ AsnInRange([neg |-> FALSE, digits |-> d])
IsAsnPathText(text) ==
    LET toks == StripEach(Split(text, ","))
    IN  \A i \in 1..Len(toks) : IsAnchoredAsn(toks[i])
C14_AspathAcceptsIff ==
    (~IsNone(argv.aspath) /\ ~IsNone(built)) =>
        (Get(built).ok <=> IsAsnPathText(Get(argv.aspath)))

\* C15: validate_rrc accepts a text exactly when every comma-separated token of
\* it, trimmed, is "rrc" and two digits; it then returns the trimmed tokens in
\* order, and otherwise returns no list and reports the first offending token.
IsRrcToken(t) ==
    /\ Len(t) = 5
    /\ SubSeq(t, 1, 3) = <<"r", "r", "c">>
    /\ t[4] \in Digits
    /\ t[5] \in Digits
C15_RrcAcceptsIff ==
    (~IsNone(argv.host) /\ ~IsNone(built)) =>
        LET toks == StripEach(Split(Get(argv.host), ","))
            allOk == \A i \in 1..Len(toks) : IsRrcToken(toks[i])
            r == Get(built)
        IN  /\ r.ok <=> allOk
            /\ r.ok => r.val = toks
            /\ ~r.ok =>
                  /\ r.val = <<>>
                  /\ \E i \in 1..Len(toks) :
                        /\ ~IsRrcToken(toks[i])
                        /\ \A j \in 1..(i - 1) : IsRrcToken(toks[j])
                        /\ r.err = toks[i]
\* an accepted text of two collectors with whitespace around the comma
C15_Witness ==
    /\ ~IsNone(argv.host)
    /\ ~IsNone(built)
    /\ Get(built).ok
    /\ Len(Get(built).val) = 2
    /\ Contains(Get(argv.host), " ")

\* C16: validate_prefix accepts a text exactly when every comma-separated token of
\* it, trimmed, holds a "/" and is an IPv4 or IPv6 network; otherwise it returns no
\* list and reports the first offending token, with the "must include mask" message
\* when that token has no "/" and the "invalid format" message when it has one.
IsMaskedNetwork(t) == Contains(t, "/") /\ IsIPNetwork(t)
C16_PrefixAcceptsIff ==
    (~IsNone(argv.prefix) /\ ~IsNone(built)) =>
        LET toks == StripEach(Split(Get(argv.prefix), ","))
            r == Get(built)
        IN  /\ r.ok <=> \A i \in 1..Len(toks) : IsMaskedNetwork(toks[i])
            /\ r.ok => r.val = toks
            /\ ~r.ok =>
                  /\ r.val = <<>>
                  /\ \E i \in 1..Len(toks) :
                        /\ ~IsMaskedNetwork(toks[i])
                        /\ \A j \in 1..(i - 1) : IsMaskedNetwork(toks[j])
                        /\ r.err = toks[i]
                        /\ r.kind = IF Contains(toks[i], "/") THEN "format" ELSE "mask"
\* a text rejected for a second token that has no "/", after a first valid network
C16_Witness ==
    /\ ~IsNone(argv.prefix)
    /\ ~IsNone(built)
    /\ ~Get(built).ok
    /\ Get(built).kind = "mask"
    /\ IsMaskedNetwork(StripEach(Split(Get(argv.prefix), ","))[1])

\* C17: while no interrupt signal has arrived, a failure of connect() or of the send
\* of the subscription never ends main: the run loop goes on to another attempt.
C17_ConnectOrSendFailureKeepsLoop ==
    [][tasks = <<>> =>
          /\ (pc = "connecting" => pc' \notin Finished)
          /\ (pc = "aexit" /\ session.ended = "sendfail" => pc' \notin Finished)]_vars

\* C18: the step in which a shutdown task cancels (it goes from its start or from
\* the wait for the close to its gather or its end) requests the cancellation of
\* the main task, if that is not over, and of every other shutdown task that is
\* not over, and not its own; and whenever a shutdown task has got through its
\* gather, the main task and every other shutdown task are over.
CancelStep(i) ==
    /\ tasks[i].pc \in {"new", "closewait"}
    /\ tasks'[i].pc \in {"gather", "done"}
C18_CancelsAllOthersNotItself ==
    [][/\ \A i \in 1..Len(tasks) :
             CancelStep(i) =>
                /\ pc \notin Finished => cancelMain'
                /\ \A j \in 1..Len(tasks) :
                      (j # i /\ ~Over(tasks[j])) => tasks'[j].cancel
                /\ ~tasks'[i].cancel
       /\ \A i \in 1..Len(tasks') :
             tasks'[i].pc = "done" =>
                /\ pc' \in Finished
                /\ \A j \in 1..Len(tasks') : j # i => Over(tasks'[j])]_vars
\* a shutdown task is in its gather, having cancelled the main task, which is still
\* suspended, and another shutdown task
C18_Witness ==
    \E i, j \in 1..Len(tasks) :
       /\ i # j
       /\ tasks[i].pc = "gather"
       /\ ~tasks[i].cancel
       /\ tasks[j].cancel
       /\ cancelMain
       /\ pc \in AwaitPoints

\* C19: at most one connection is not closed, and it is the one opened last; the
\* handle disconnect closes (self._ws) is the connection opened last.
C19_OneConnectionAtATime ==
    /\ \A c \in 1..(Len(conns) - 1) : conns[c].state = "closed"
    /\ ws = Len(conns)
    /\ websocket \in {0, Len(conns)}
\* a second connection is open while a shutdown task still waits for the close of
\* the first
C19_Witness ==
    /\ Len(conns) >= 2
    /\ conns[Len(conns)].state = "open"
    /\ \E i \in 1..Len(tasks) :
          tasks[i].pc = "closewait" /\ tasks[i].target < Len(conns)

\* C20: after an interrupt signal the run terminates: the main task is over, a
\* shutdown task has run to its end (it returned, it was not ended by a
\* CancelledError), and every connection is closed.
Terminated ==
    /\ pc \in Finished
    /\ \E i \in 1..Len(tasks) : tasks[i].pc = "done"
    /\ \A c \in 1..Len(conns) : conns[c].state = "closed"
C20_SignalLeadsToTermination == (tasks # <<>>) ~> Terminated

=============================================================================
